---- MODULE Spec2Model ----
(***************************************************************************)
(* TranslationsManager of react-intl-tm (src/lib/index.js, the class that  *)
(* starts at line 262).  The manager resolves a list of messages, builds   *)
(* a template from it, reconciles the template with one JSON translation   *)
(* file per locale, and can write the reconciled translations back.        *)
(*                                                                         *)
(* JavaScript objects are modelled as sequences of [k, v] entries in the   *)
(* order in which for..in, Object.entries and JSON.stringify visit them:   *)
(* integer-like keys ascending first, then the other keys in insertion     *)
(* order.  The `in` operator looks at own and at inherited properties.     *)
(*                                                                         *)
(* Spec starts from a fresh project and lets the files be changed from     *)
(* outside; SpecQuiet starts from a project in which one locale may have   *)
(* a file of any content and runs the manager's operations only;           *)
(* SpecReport starts likewise and constructs managers and prints reports.  *)
(***************************************************************************)
EXTENDS Integers, Sequences, FiniteSets, TLC

\* ------------------------------------------------------------------ bounds
MaxMessages == 2   \* longest message list supplied to the manager
MaxFileKeys == 2   \* most keys of a translation file written from outside
MaxRuns == 2       \* constructions plus reload() calls in one behaviour
MaxEdits == 1      \* changes made to translation files from outside

\* ------------------------------------------------------------- value sets
\* Message ids: an ordinary name, an integer-like name, and a name that every
\* object inherits from Object.prototype.
Keys == {"a", "1", "constructor"}
IndexKeys == {"1"}
PrototypeKeys == {"constructor"}
\* Texts of translation files, and the default texts of messages among them.
Texts == {"D", "E"}
DefaultTexts == {"D"}
\* The value read through an inherited key: a function, never a string.
FnVal == "[Function]"

Message == [id : Keys, defaultMessage : DefaultTexts]
MessageLists == UNION {[1..n -> Message] : n \in 0..MaxMessages}
\* Lists read from messagesDir or extracted from source: they reach the same
\* this.messages as a list supplied directly, so short ones are drawn.
ShortMessageLists == {m \in MessageLists : Len(m) <= 1}

Entry(key, val) == [k |-> key, v |-> val]
EmptyObj == <<>>

\* --------------------------------------------------- JavaScript objects
OwnKeys(o) == {o[i].k : i \in 1..Len(o)}
HasOwn(o, key) == key \in OwnKeys(o)
KeySeq(o) == [i \in 1..Len(o) |-> o[i].k]
OwnGet(o, key) == o[CHOOSE i \in 1..Len(o) : o[i].k = key].v

\* `key in o`: own properties and those of Object.prototype.
In(o, key) == HasOwn(o, key) \/ key \in PrototypeKeys

\* `o[key]` for a key that is `in o`.
Get(o, key) == IF HasOwn(o, key) THEN OwnGet(o, key) ELSE FnVal

KeyNum(key) == IF key = "1" THEN 1 ELSE 0

InsertAt(o, i, e) == SubSeq(o, 1, i - 1) \o <<e>> \o SubSeq(o, i, Len(o))

\* `o[key] = val` on a plain object: an existing key keeps its place, a new
\* integer-like key goes among the integer-like keys, any other new key last.
ObjSet(o, key, val) ==
  IF HasOwn(o, key)
  THEN [i \in 1..Len(o) |-> IF o[i].k = key THEN Entry(key, val) ELSE o[i]]
  ELSE IF key \in IndexKeys
       THEN LET before == {i \in 1..Len(o) :
                             /\ o[i].k \in IndexKeys
                             /\ KeyNum(o[i].k) < KeyNum(key)}
            IN InsertAt(o, Cardinality(before) + 1, Entry(key, val))
       ELSE Append(o, Entry(key, val))

\* JSON text of an object is the sequence of its members as written.
\* JSON.stringify leaves out the members whose value is a function.
IsJsonValue(e) == e.v # FnVal
\* A serializer that also leaves out members whose value is falsy.
stringifyTruthy(obj) == SelectSeq(obj, LAMBDA e : IsJsonValue(e) /\ e.v # "")
stringify(obj) == SelectSeq(obj, IsJsonValue)

RECURSIVE ParseFrom(_, _, _)
ParseFrom(text, i, acc) ==
  IF i > Len(text) THEN acc
  ELSE ParseFrom(text, i + 1, ObjSet(acc, text[i].k, text[i].v))
JSONparse(text) == ParseFrom(text, 1, EmptyObj)

\* ------------------------------------------------ reconciliation (_perform)
\* A translation that starts from the object read from the file, as the
\* earlier release of _perform did.
NewTranslationFromFile(file) == file
\* `const translation = {}`
NewTranslation(file) == EmptyObj

Acc(translation, added, untranslated) ==
  [translation |-> translation, added |-> added, untranslated |-> untranslated]

\* Body of `for (let key in template)` that replaces an existing value of
\* the default locale by the template's text.
MergeStepOverwrite(acc, key, defaultMessage, file, isDefault) ==
  IF In(file, key)
  THEN LET message == IF isDefault THEN defaultMessage ELSE Get(file, key)
       IN Acc(ObjSet(acc.translation, key, message),
              acc.added,
              IF ~isDefault /\ message = defaultMessage
              THEN ObjSet(acc.untranslated, key, message)
              ELSE acc.untranslated)
  ELSE LET val == IF isDefault THEN defaultMessage ELSE ""
       IN Acc(ObjSet(acc.translation, key, val),
              ObjSet(acc.added, key, val),
              acc.untranslated)

\* Body of `for (let key in template)` that flags every unchanged value.
MergeStepNoExemption(acc, key, defaultMessage, file, isDefault) ==
  IF In(file, key)
  THEN LET message == Get(file, key)
       IN Acc(ObjSet(acc.translation, key, message),
              acc.added,
              IF message = defaultMessage
              THEN ObjSet(acc.untranslated, key, message)
              ELSE acc.untranslated)
  ELSE LET val == IF isDefault THEN defaultMessage ELSE ""
       IN Acc(ObjSet(acc.translation, key, val),
              ObjSet(acc.added, key, val),
              acc.untranslated)

\* Body of `for (let key in template)`.
MergeStep(acc, key, defaultMessage, file, isDefault) ==
  IF In(file, key)
  THEN LET message == Get(file, key)
       IN Acc(ObjSet(acc.translation, key, message),
              acc.added,
              IF ~isDefault /\ message = defaultMessage
              THEN ObjSet(acc.untranslated, key, message)
              ELSE acc.untranslated)
  ELSE LET val == IF isDefault THEN defaultMessage ELSE ""
       IN Acc(ObjSet(acc.translation, key, val),
              ObjSet(acc.added, key, val),
              acc.untranslated)

RECURSIVE MergeLoop(_, _, _, _, _)
MergeLoop(template, i, file, isDefault, acc) ==
  IF i > Len(template) THEN acc
  ELSE MergeLoop(template, i + 1, file, isDefault,
                 MergeStep(acc, template[i].k, template[i].v, file, isDefault))

\* `for (let key in file) { if (key in translation) continue; ... }`
RECURSIVE RemovedLoop(_, _, _, _)
RemovedLoop(file, i, translation, removed) ==
  IF i > Len(file) THEN removed
  ELSE RemovedLoop(file, i + 1, translation,
                   IF In(translation, file[i].k) THEN removed
                   ELSE ObjSet(removed, file[i].k, file[i].v))

\* An iteration whose second loop runs over the template and tests the file.
PerformLocaleSwapped(locale, template, file, isDefault) ==
  LET acc == MergeLoop(template, 1, file, isDefault,
                       Acc(NewTranslation(file), EmptyObj, EmptyObj))
  IN [locale |-> locale,
      translation |-> acc.translation,
      added |-> acc.added,
      removed |-> RemovedLoop(template, 1, file, EmptyObj),
      untranslated |-> acc.untranslated]

\* One iteration of `for (let locale of this.options.locales)`, given the
\* object read from the locale's file ({} when there is none).
PerformLocale(locale, template, file, isDefault) ==
  LET acc == MergeLoop(template, 1, file, isDefault,
                       Acc(NewTranslation(file), EmptyObj, EmptyObj))
  IN [locale |-> locale,
      translation |-> acc.translation,
      added |-> acc.added,
      removed |-> RemovedLoop(file, 1, acc.translation, EmptyObj),
      untranslated |-> acc.untranslated]

\* `this.messages.reduce((acc, {id, defaultMessage}) => ...)`
RECURSIVE BuildFrom(_, _, _)
BuildFrom(msgs, i, acc) ==
  IF i > Len(msgs) THEN acc
  ELSE BuildFrom(msgs, i + 1, ObjSet(acc, msgs[i].id, msgs[i].defaultMessage))
BuildTemplate(msgs) == BuildFrom(msgs, 1, EmptyObj)

\* ------------------------------------------------------------------ state
VARIABLES
  options,       \* which of messages, messagesDir, source, translationsDir are supplied
  babel,         \* whether require('@babel/core') succeeded
  msgInput,      \* the message list behind the supplied message source
  disk,          \* per locale, the file {translationsDir}/{locale}.json
  dirExists,     \* whether translationsDir exists
  phase,         \* "new": no manager yet; "ready": a manager exists; "failed": the constructor threw
  messages,      \* this.messages
  template,      \* this.template
  translations,  \* this.translations
  hist,          \* per entry of translations: the run and the inputs it was computed from
  error,         \* what the last construction, reload() or writeFiles() raised
  io,            \* file-system calls of the last construction, reload() or writeFiles()
  runs,          \* constructions and reload() calls so far
  edits,         \* outside changes to translation files so far
  console,       \* the options and the console.log output of the last report()
  lastOp,        \* the last step: "none", "construct", "reload", "writeFiles",
                 \* "report", "edit"
  sync           \* how the files relate to the last run: "none", or "run" after a
                 \* complete run, "written" after writeFiles() following a complete
                 \* run, "rerun" after a complete run following that writeFiles()

vars == <<options, babel, msgInput, disk, dirExists, phase, messages, template,
          translations, hist, error, io, runs, edits, console, lastOp, sync>>

locales == <<"en", "de">>
defaultLocale == "en"
LocaleSet == {locales[i] : i \in 1..Len(locales)}

NoError == "none"
ErrMessages == "TypeError: Please provide one of messages, messagesDir, or source options"
ErrTranslationsDir == "TypeError: Please provide translationsDir option"
ErrBabel == "Error: Babel required"
ErrMessagesRequired == "Error: Messages required"
ErrRead == "SyntaxError: JSON.parse"

Absent == [kind |-> "absent", text |-> <<>>]
Corrupt == [kind |-> "corrupt", text |-> <<>>]
Json(text) == [kind |-> "json", text |-> text]

FileEntries == {Entry(key, val) : key \in Keys, val \in Texts}
FileTexts ==
  {t \in UNION {[1..n -> FileEntries] : n \in 0..MaxFileKeys} :
     \A i, j \in 1..Len(t) : t[i].k = t[j].k => i = j}
FileStates == {Absent, Corrupt} \cup {Json(t) : t \in FileTexts}

OptionSets ==
  {o \in [messages : BOOLEAN, messagesDir : BOOLEAN, source : BOOLEAN,
          translationsDir : BOOLEAN] :
     Cardinality({f \in {"messages", "messagesDir", "source"} : o[f]}) <= 1}

\* Bookkeeping of sync after a construction or reload() that raised `err`.
AfterRun(err) ==
  IF err # NoError THEN "none" ELSE IF sync = "written" THEN "rerun" ELSE "run"

\* ------------------------------------------------------------ operations
\* _validateOptions: the error it throws, or NoError.
ValidateTranslationsDirFirst(o) ==
  IF ~o.translationsDir THEN ErrTranslationsDir
  ELSE IF ~o.messages /\ ~o.messagesDir /\ ~o.source THEN ErrMessages
  ELSE NoError

ValidateOptions(o) ==
  IF ~o.messages /\ ~o.messagesDir /\ ~o.source THEN ErrMessages
  ELSE IF ~o.translationsDir THEN ErrTranslationsDir
  ELSE NoError

\* _resolveMessages with the extractMessages of the earlier release, which
\* calls babel.loadOptions() without testing babel.
ErrUndefinedBabel == "TypeError: Cannot read property 'loadOptions' of undefined"
ResolveMessagesUnguarded(o, hasBabel, input) ==
  IF o.messages THEN [error |-> NoError, messages |-> input, io |-> <<>>]
  ELSE IF o.messagesDir
  THEN [error |-> NoError, messages |-> input, io |-> << <<"read", "messagesDir">> >>]
  ELSE IF o.source
  THEN IF ~hasBabel
       THEN [error |-> ErrUndefinedBabel, messages |-> <<>>, io |-> <<>>]
       ELSE [error |-> NoError, messages |-> input, io |-> << <<"read", "source">> >>]
  ELSE [error |-> ErrMessagesRequired, messages |-> <<>>, io |-> <<>>]

\* _resolveMessages with readMessages and extractMessages.
ResolveMessages(o, hasBabel, input) ==
  IF o.messages THEN [error |-> NoError, messages |-> input, io |-> <<>>]
  ELSE IF o.messagesDir
  THEN [error |-> NoError, messages |-> input, io |-> << <<"read", "messagesDir">> >>]
  ELSE IF o.source
  THEN IF ~hasBabel
       THEN [error |-> ErrBabel, messages |-> <<>>, io |-> <<>>]
       ELSE [error |-> NoError, messages |-> input, io |-> << <<"read", "source">> >>]
  ELSE [error |-> ErrMessagesRequired, messages |-> <<>>, io |-> <<>>]

\* readTranslationFile: undefined for a file that does not exist, the parsed
\* object otherwise; any other failure is thrown.
ReadTranslationFile(d, locale) ==
  IF d[locale].kind = "absent" THEN [error |-> NoError, found |-> FALSE, obj |-> EmptyObj]
  ELSE IF d[locale].kind = "corrupt" THEN [error |-> ErrRead, found |-> FALSE, obj |-> EmptyObj]
  ELSE [error |-> NoError, found |-> TRUE, obj |-> JSONparse(d[locale].text)]

\* _perform from the i-th locale on: results are pushed one locale at a
\* time, and a read that throws leaves the loop.
RECURSIVE PerformFrom(_, _, _, _, _, _, _)
PerformFrom(i, d, tmpl, run, ts, hs, ios) ==
  IF i > Len(locales) THEN [error |-> NoError, translations |-> ts, hist |-> hs, io |-> ios]
  ELSE LET locale == locales[i]
           isDefault == locale = defaultLocale
           rd == ReadTranslationFile(d, locale)
           ios2 == Append(ios, <<"read", locale>>)
       IN IF rd.error # NoError
          THEN [error |-> rd.error, translations |-> ts, hist |-> hs, io |-> ios2]
          ELSE PerformFrom(i + 1, d, tmpl, run,
                 Append(ts, PerformLocale(locale, tmpl, rd.obj, isDefault)),
                 Append(hs, [run |-> run, file |-> rd.obj, found |-> rd.found,
                             template |-> tmpl, isDefault |-> isDefault]),
                 ios2)

\* reload(): _resolveMessages, _buildTemplate, _perform, on top of the
\* results the manager already holds.
ReloadFrom(ts, hs, run) ==
  LET rm == ResolveMessages(options, babel, msgInput)
  IN IF rm.error # NoError
     THEN [error |-> rm.error, messages |-> messages, template |-> template,
           translations |-> ts, hist |-> hs, io |-> rm.io]
     ELSE LET tmpl == BuildTemplate(rm.messages)
              pf == PerformFrom(1, disk, tmpl, run, ts, hs, rm.io)
          IN [error |-> pf.error, messages |-> rm.messages, template |-> tmpl,
              translations |-> pf.translations, hist |-> pf.hist, io |-> pf.io]

\* writeTranslationFile: the directory is made when it does not exist, then
\* the file is (over)written with the stringified translation.
WriteTranslationFile(fs, locale, translation) ==
  [disk |-> [fs.disk EXCEPT ![locale] = Json(stringify(translation))],
   dirExists |-> TRUE,
   io |-> (IF fs.dirExists THEN fs.io
           ELSE Append(fs.io, <<"mkdir", "translationsDir">>))
          \o << <<"write", locale>> >>]

\* writeFiles(): every entry of this.translations, in order.
RECURSIVE WriteFrom(_, _, _)
WriteFrom(ts, i, fs) ==
  IF i > Len(ts) THEN fs
  ELSE WriteFrom(ts, i + 1, WriteTranslationFile(fs, ts[i].locale, ts[i].translation))

\* results()
results == translations

\* The text of a value in a listing: the empty string is shown as "".
Shown(v) == IF v = "" THEN "\"\"" ELSE v

\* One block of the listing: its title, then one line per entry.
Listing(title, entries) ==
  IF Len(entries) > 0
  THEN <<[title |-> title, k |-> "", v |-> ""]>>
       \o [j \in 1..Len(entries) |->
             [title |-> "", k |-> entries[j].k, v |-> Shown(entries[j].v)]]
  ELSE <<>>

\* The counts of the summary line: `${v} ${k}` for each category, filtered.
Counts(added, removed, untranslated) ==
  SelectSeq(<< <<Len(added), "added">>, <<Len(removed), "removed">>,
               <<Len(untranslated), "untranslated">> >>,
            LAMBDA c : c[1] > 0)

\* The report of the earlier release: clean when nothing was added or
\* removed, and then nothing else is rendered.
renderTranslationReportOld(result, short) ==
  IF Len(result.added) = 0 /\ Len(result.removed) = 0
  THEN [clean |-> TRUE, filePath |-> result.locale, counts |-> <<>>, listing |-> <<>>]
  ELSE [clean |-> FALSE,
        filePath |-> result.locale,
        counts |-> << <<Len(result.added), "added">>, <<Len(result.removed), "removed">> >>,
        listing |-> IF short THEN <<>>
                    ELSE Listing("(+) Added:", result.added)
                         \o Listing("(-) Removed:", result.removed)
                         \o Listing("(!) Not translated:", result.untranslated)]

\* renderTranslationReport: the summary line (the file's path with a check
\* mark, or with the counts in parentheses) and, unless options.short, the
\* listing that follows it.
renderTranslationReport(result, short) ==
  LET clean == /\ Len(result.added) = 0
               /\ Len(result.removed) = 0
               /\ Len(result.untranslated) = 0
  IN [clean |-> clean,
      filePath |-> result.locale,
      counts |-> IF clean THEN <<>>
                 ELSE Counts(result.added, result.removed, result.untranslated),
      listing |-> IF short THEN <<>>
                  ELSE Listing("(+) Added:", result.added)
                       \o Listing("(-) Removed:", result.removed)
                       \o Listing("(!) Untranslated:", result.untranslated)]

\* ---------------------------------------------------------------- actions
\* What the manager is given, and the manager not yet constructed.
InitManager ==
  /\ options \in OptionSets
  /\ babel \in (IF options.source THEN BOOLEAN ELSE {TRUE})
  /\ msgInput \in (IF options.messages THEN MessageLists ELSE ShortMessageLists)
  /\ phase = "new"
  /\ messages = <<>>
  /\ template = EmptyObj
  /\ translations = <<>>
  /\ hist = <<>>
  /\ error = NoError
  /\ io = <<>>
  /\ runs = 0
  /\ edits = 0
  /\ console = [short |-> FALSE, out |-> <<>>]
  /\ lastOp = "none"
  /\ sync = "none"

\* A fresh project: no translations directory yet.
Init ==
  /\ InitManager
  /\ disk = [l \in LocaleSet |-> Absent]
  /\ dirExists = FALSE

\* A project in which one locale may already have a file, of any content;
\* the locales are reconciled independently of each other.
OneFileDisks ==
  {d \in [LocaleSet -> FileStates] :
     Cardinality({l \in LocaleSet : d[l] # Absent}) <= 1}
InitFiles ==
  /\ InitManager
  /\ disk \in OneFileDisks
  /\ dirExists = (\E l \in LocaleSet : disk[l] # Absent)

\* new TranslationsManager(options): this.translations = [], then
\* _validateOptions(), then reload().  A constructor that throws leaves no
\* manager behind.
Construct ==
  /\ phase \in {"new", "ready"}
  /\ runs < MaxRuns
  /\ runs' = runs + 1
  /\ LET verr == ValidateOptions(options)
         r == ReloadFrom(<<>>, <<>>, runs + 1)
     IN /\ lastOp' = "construct"
        /\ IF verr # NoError
           THEN /\ error' = verr
                /\ phase' = "failed"
                /\ translations' = <<>>
                /\ hist' = <<>>
                /\ io' = <<>>
                /\ sync' = "none"
                /\ UNCHANGED <<messages, template>>
           ELSE /\ error' = r.error
                /\ phase' = IF r.error = NoError THEN "ready" ELSE "failed"
                /\ translations' = r.translations
                /\ hist' = r.hist
                /\ io' = r.io
                /\ messages' = r.messages
                /\ template' = r.template
                /\ sync' = AfterRun(r.error)
  /\ UNCHANGED <<options, babel, msgInput, disk, dirExists, edits, console>>

\* reload() on the existing manager.
Reload ==
  /\ phase = "ready"
  /\ runs < MaxRuns
  /\ runs' = runs + 1
  /\ lastOp' = "reload"
  /\ LET r == ReloadFrom(translations, hist, runs + 1)
     IN /\ error' = r.error
        /\ translations' = r.translations
        /\ hist' = r.hist
        /\ io' = r.io
        /\ messages' = r.messages
        /\ template' = r.template
        /\ sync' = AfterRun(r.error)
  /\ UNCHANGED <<options, babel, msgInput, disk, dirExists, phase, edits, console>>

\* writeFiles() on the existing manager.
WriteFiles ==
  /\ phase = "ready"
  /\ LET fs == WriteFrom(translations, 1,
                         [disk |-> disk, dirExists |-> dirExists, io |-> <<>>])
     IN /\ disk' = fs.disk
        /\ dirExists' = fs.dirExists
        /\ io' = fs.io
  /\ error' = NoError
  /\ lastOp' = "writeFiles"
  /\ sync' = IF sync = "none" THEN "none" ELSE "written"
  /\ UNCHANGED <<options, babel, msgInput, phase, messages, template,
                 translations, hist, runs, edits, console>>

\* Somebody else creates, rewrites, damages or deletes a translation file.
ExternalEdit ==
  /\ phase # "failed"
  /\ edits < MaxEdits
  /\ edits' = edits + 1
  /\ \E l \in LocaleSet, f \in FileStates :
       /\ f # disk[l]
       /\ disk' = [disk EXCEPT ![l] = f]
  /\ dirExists' = TRUE
  /\ lastOp' = "edit"
  /\ sync' = "none"
  /\ UNCHANGED <<options, babel, msgInput, phase, messages, template,
                 translations, hist, error, io, runs, console>>

\* report(options): one console.log per entry of this.translations.
Report ==
  /\ phase = "ready"
  /\ \E short \in BOOLEAN :
       console' = [short |-> short,
                   out |-> [i \in 1..Len(translations) |->
                              renderTranslationReport(translations[i], short)]]
  /\ lastOp' = "report"
  /\ UNCHANGED <<options, babel, msgInput, disk, dirExists, phase, messages,
                 template, translations, hist, error, io, runs, edits, sync>>

Next == Construct \/ Reload \/ WriteFiles \/ Report \/ ExternalEdit

Spec == Init /\ [][Next]_vars

\* The manager's own operations, on files nobody else changes after the start.
NextQuiet == Construct \/ Reload \/ WriteFiles

SpecQuiet == InitFiles /\ [][NextQuiet]_vars

\* Managers constructed on such a project and asked for their report.
NextReport == Construct \/ Report

SpecReport == InitFiles /\ [][NextReport]_vars

TypeOK ==
  /\ lastOp \in {"none", "construct", "reload", "writeFiles", "report", "edit"}
  /\ sync \in {"none", "run", "written", "rerun"}
  /\ phase \in {"new", "ready", "failed"}
  /\ runs \in 0..MaxRuns
  /\ edits \in 0..MaxEdits
  /\ Len(hist) = Len(translations)

\* ----------------------------------------------------------------- claims
ResultIndices == 1..Len(translations)
NumLocales == Len(locales)
LastN(ts, n) == SubSeq(ts, Len(ts) - n + 1, Len(ts))

\* C1: existing translations are never overwritten: in every result, a key
\* that the template and the locale's prior file both hold keeps the prior
\* file's value, for the default locale as for any other, whatever the
\* template's default text is.
C1_NeverOverwritten ==
  \A i \in ResultIndices :
    \A key \in OwnKeys(hist[i].template) \cap OwnKeys(hist[i].file) :
      /\ HasOwn(translations[i].translation, key)
      /\ OwnGet(translations[i].translation, key) = OwnGet(hist[i].file, key)

\* A manager holds results in which the default locale and another locale
\* each had a prior value different from the template's default text.
C1_Witness ==
  /\ phase = "ready"
  /\ \A d \in BOOLEAN :
       \E i \in ResultIndices :
         /\ hist[i].isDefault = d
         /\ \E key \in OwnKeys(hist[i].template) \cap OwnKeys(hist[i].file) :
              OwnGet(hist[i].file, key) # OwnGet(hist[i].template, key)

\* C2: in every result the keys of translation are exactly the keys of the
\* template, in template order, whatever the prior file held and whether
\* or not it existed.
C2_KeySetClosure ==
  \A i \in ResultIndices :
    KeySeq(translations[i].translation) = KeySeq(hist[i].template)

\* A result computed from a two-key template and an existing prior file that
\* holds a key the template lacks and lacks a key the template holds.
C2_Witness ==
  /\ phase = "ready"
  /\ \E i \in ResultIndices :
       /\ hist[i].found
       /\ Len(hist[i].template) = 2
       /\ OwnKeys(hist[i].file) \ OwnKeys(hist[i].template) # {}
       /\ OwnKeys(hist[i].template) \ OwnKeys(hist[i].file) # {}
       /\ OwnKeys(hist[i].template) \cap OwnKeys(hist[i].file) # {}

\* The entries the template asks to add for a prior file: the template keys
\* the file does not hold, in template order, with the default text for the
\* default locale and the empty string otherwise.
ExpectedAdded(h) ==
  LET missing == SelectSeq(h.template, LAMBDA e : ~HasOwn(h.file, e.k))
  IN [j \in 1..Len(missing) |->
        Entry(missing[j].k, IF h.isDefault THEN missing[j].v ELSE "")]

\* C3: in every result, added holds exactly the template keys absent from
\* the prior file (all of them when there is no file), in template order,
\* each with the default text (default locale) or the empty string (other
\* locales), and translation holds the same value for each of them.
C3_AddedExactly ==
  \A i \in ResultIndices :
    /\ translations[i].added = ExpectedAdded(hist[i])
    /\ \A j \in 1..Len(translations[i].added) :
         LET e == translations[i].added[j]
         IN /\ HasOwn(translations[i].translation, e.k)
            /\ OwnGet(translations[i].translation, e.k) = e.v

\* The entries of a prior file whose key the template lacks, in file order.
ExpectedRemoved(h) == SelectSeq(h.file, LAMBDA e : ~HasOwn(h.template, e.k))

\* C4: in every result, removed holds exactly the entries of the prior file
\* whose key is absent from the template, in prior-file order, and none of
\* those keys is a key of translation.
C4_RemovedExactly ==
  \A i \in ResultIndices :
    /\ translations[i].removed = ExpectedRemoved(hist[i])
    /\ \A e \in {hist[i].file[j] : j \in 1..Len(hist[i].file)} :
         ~HasOwn(hist[i].template, e.k) => ~HasOwn(translations[i].translation, e.k)

\* The template entries a prior file leaves at the default text.
ExpectedUntranslated(h) ==
  SelectSeq(h.template,
            LAMBDA e : HasOwn(h.file, e.k) /\ OwnGet(h.file, e.k) = e.v)

\* C5: untranslated is empty for the default locale; for any other locale
\* it holds exactly the keys that the template and the prior file both
\* hold and whose prior value is the template's default text, so that no
\* key added in this run is listed.
C5_UntranslatedExactly ==
  \A i \in ResultIndices :
    /\ translations[i].untranslated =
         (IF hist[i].isDefault THEN EmptyObj ELSE ExpectedUntranslated(hist[i]))
    /\ OwnKeys(translations[i].untranslated) \cap OwnKeys(translations[i].added) = {}

\* A manager holds a result of the default locale whose prior file repeats a
\* default text, and a result of another locale that lists an untranslated
\* key and added another key in the same run.
C5_Witness ==
  /\ phase = "ready"
  /\ \E i \in ResultIndices :
       /\ hist[i].isDefault
       /\ ExpectedUntranslated(hist[i]) # EmptyObj
  /\ \E i \in ResultIndices :
       /\ ~hist[i].isDefault
       /\ translations[i].untranslated # EmptyObj
       /\ translations[i].added # EmptyObj

\* C6: idempotence.  When a complete run is followed by writeFiles() and,
\* with no outside change to the files and the same template, by another
\* run (reload() or a new manager), every result of the second run has
\* added and removed empty and the translation of the first run.
C6_Idempotence ==
  [][(sync = "written" /\ sync' = "rerun" /\ template' = template)
       => LET new == LastN(translations', NumLocales)
              old == LastN(translations, NumLocales)
          IN \A i \in 1..NumLocales :
               /\ new[i].locale = old[i].locale
               /\ new[i].added = EmptyObj
               /\ new[i].removed = EmptyObj
               /\ new[i].translation = old[i].translation]_vars

\* reload() has just re-run after writeFiles(): the first run had added keys
\* to every locale and removed a key from one, the second run is clean.
C6_Witness ==
  /\ sync = "rerun"
  /\ Len(translations) = 2 * NumLocales
  /\ \A i \in 1..NumLocales : translations[i].added # EmptyObj
  /\ \E i \in 1..NumLocales : translations[i].removed # EmptyObj
  /\ \A i \in 1..NumLocales :
       /\ translations[NumLocales + i].added = EmptyObj
       /\ translations[NumLocales + i].removed = EmptyObj

\* The result writeFiles() writes last for a locale.
HasResult(l) == \E i \in ResultIndices : translations[i].locale = l
CurrentResult(l) ==
  LET last == CHOOSE i \in ResultIndices :
                /\ translations[i].locale = l
                /\ \A j \in ResultIndices : translations[j].locale = l => j <= i
  IN translations[last]

\* C7: when writeFiles() has completed, the directory exists and the file of
\* every locale that has a result holds exactly the translation of the
\* locale's current result: same keys, same values, same order.
C7_WriteFilesExact ==
  lastOp = "writeFiles"
    => /\ dirExists
       /\ \A l \in LocaleSet :
            HasResult(l) => disk[l] = Json(CurrentResult(l).translation)

\* C8: whenever a manager exists and its last construction or reload()
\* completed, results() holds exactly one result per configured locale, in
\* the configured order, each computed by the most recent run.
C8_ReloadReplaces ==
  (phase = "ready" /\ error = NoError)
    => /\ Len(results) = NumLocales
       /\ \A i \in 1..Len(results) :
            /\ i <= NumLocales
            /\ results[i].locale = locales[i]
            /\ hist[i].run = runs

NoMessageSource(o) == ~o.messages /\ ~o.messagesDir /\ ~o.source

\* C9: a construction whose options name no message source or no
\* translationsDir fails with the validation error (the message-source one
\* when both are missing) without any file-system call and without
\* computing any result.
C9_ValidationFirst ==
  (lastOp = "construct" /\ (NoMessageSource(options) \/ ~options.translationsDir))
    => /\ phase = "failed"
       /\ error = (IF NoMessageSource(options) THEN ErrMessages ELSE ErrTranslationsDir)
       /\ io = <<>>
       /\ translations = <<>>

\* A construction has failed with neither a message source nor a
\* translationsDir, while a translation file was there to be read.
C9_Witness ==
  /\ lastOp = "construct"
  /\ NoMessageSource(options)
  /\ ~options.translationsDir
  /\ error = ErrMessages
  /\ \E l \in LocaleSet : disk[l].kind = "json"

\* C10: no partial success.  A missing file is read as an empty prior
\* mapping, and when the manager's last construction or reload() raised on
\* reading a file, results() holds no result of that run.
C10_NoPartialResults ==
  /\ \A i \in ResultIndices : ~hist[i].found => hist[i].file = EmptyObj
  /\ (phase = "ready" /\ error = ErrRead)
       => \A i \in 1..Len(results) : hist[i].run # runs

\* C11: in every result, no key is both in added and in removed.
C11_Disjoint ==
  \A i \in ResultIndices :
    OwnKeys(translations[i].added) \cap OwnKeys(translations[i].removed) = {}

\* A manager holds a result that both added a key and removed a key.
C11_Witness ==
  /\ phase = "ready"
  /\ \E i \in ResultIndices :
       /\ translations[i].added # EmptyObj
       /\ translations[i].removed # EmptyObj

\* C12: a rendered report is marked clean exactly when added, removed and
\* untranslated are all empty; otherwise its summary line counts each
\* non-empty category and no other; and a report printed with {short: true}
\* lists no added, removed or untranslated entry.
C12_Report ==
  lastOp = "report"
    => /\ Len(console.out) = Len(translations)
       /\ \A i \in 1..Len(console.out) :
            LET r == translations[i]
                rep == console.out[i]
                named(n) == \E j \in 1..Len(rep.counts) : rep.counts[j][2] = n
                counted(n, entries) ==
                  /\ named(n) <=> entries # EmptyObj
                  /\ \A j \in 1..Len(rep.counts) :
                       rep.counts[j][2] = n => rep.counts[j][1] = Len(entries)
            IN /\ rep.clean <=> (/\ r.added = EmptyObj
                                 /\ r.removed = EmptyObj
                                 /\ r.untranslated = EmptyObj)
               /\ ~rep.clean => /\ counted("added", r.added)
                                /\ counted("removed", r.removed)
                                /\ counted("untranslated", r.untranslated)
               /\ console.short => rep.listing = <<>>

\* A short report has been printed for a clean locale and for a locale
\* with some but not all categories non-empty; printed in full it does list.
C12_Witness ==
  /\ lastOp = "report"
  /\ console.short
  /\ \E i \in 1..Len(console.out) : console.out[i].clean
  /\ \E i \in 1..Len(console.out) :
       /\ ~console.out[i].clean
       /\ Len(console.out[i].counts) < 3
       /\ renderTranslationReport(translations[i], FALSE).listing # <<>>

\* Only `source` is supplied as the message source, translationsDir is
\* supplied, and @babel/core is not installed.
SourceWithoutBabel == options.source /\ options.translationsDir /\ ~babel

\* C13 as stated: constructing a manager with only `source` set, babel not
\* being installed, does not raise the babel error.
C13_NotAtConstruction ==
  (lastOp = "construct" /\ SourceWithoutBabel) => error # ErrBabel

\* C13 as amended: the babel error is raised where extraction is attempted,
\* after the options passed validation: only for `source` without babel,
\* with no file-system call and no result; and since the constructor runs
\* reload(), constructing such a manager raises it and leaves no manager.
C13_RaisedByExtraction ==
  /\ error = ErrBabel
       => /\ SourceWithoutBabel
          /\ ValidateOptions(options) = NoError
          /\ io = <<>>
          /\ translations = <<>>
  /\ (lastOp = "construct" /\ SourceWithoutBabel)
       => /\ error = ErrBabel
          /\ phase = "failed"

\* A construction with only `source` set has raised the babel error while a
\* translation file was there to be read.
C13_Witness ==
  /\ lastOp = "construct"
  /\ SourceWithoutBabel
  /\ error = ErrBabel
  /\ \E l \in LocaleSet : disk[l].kind = "json"

====
